---- MODULE Spec2Model ----
(***************************************************************************)
(* A model of the rtx-mogu path tracer (src/src/*.rs).                     *)
(*                                                                         *)
(* Spec      the frame scheduler render_mt (main.rs:108-191): the display  *)
(*           loop, the frame-producing thread, its scoped worker threads,  *)
(*           the atomic pixel counter, the stop flag and the swap slot.    *)
(* FairSpec  Spec with the fairness a fair thread scheduler gives.         *)
(*                                                                         *)
(* A pixel of a frame buffer is kept by its provenance: ZeroPixel is the   *)
(* 0 that vec![0; WIDTH * HEIGHT] stores, <<k, x, y>> is the value that a  *)
(* worker of frame k computed for column x, row y.                         *)
(***************************************************************************)
EXTENDS Integers, Sequences, FiniteSets, TLC

\* ------------------------------------------------------------------ bounds
\* Number of worker threads, `par` of main.rs:110-111 (always >= 1).
par == 2
\* The producer's `while` loop is cut after this many frames.
MaxFrames == 2

\* ------------------------------------------------------- program constants
\* main.rs:28-38: the resolution (width, height). The model renders a small
\* image whose pixel count, 66, is one full chunk and one partial chunk.
RES == <<11, 6>>
WIDTH == RES[1]
HEIGHT == RES[2]

\* main.rs:129
pixels_per_iter == 64

end_index == WIDTH * HEIGHT

Workers == 1..par
Pixels == 0..(end_index - 1)

Min(a, b) == IF a <= b THEN a ELSE b

ZeroPixel == <<0, 0, 0>>

\* vec![0; WIDTH * HEIGHT]
ZeroBuffer == [i \in Pixels |-> ZeroPixel]

VARIABLES
    stop,          \* AtomicBool `stop`
    swap_chain,    \* the buffer in the Mutex<Cell<Vec<u32>>>
    mutex,         \* who holds the swap_chain mutex: "free", "producer", "display"
    ppc,           \* the producer thread's position
    frame,         \* number of frames the producer has started
    buffer,        \* the producer's `buffer` of the current frame
    pixel_index,   \* AtomicUsize `pixel_index` of the current frame
    spawned,       \* workers spawned so far in the current scope
    wpc,           \* each worker's position
    start_idx,     \* each worker's `start_idx`
    idx,           \* each worker's `idx`
    dpc,           \* the display loop's position
    shown,         \* the display loop's `buffer` (the clone of the slot)
    claims,        \* history: per pixel index, how often it was claimed in this frame
    writes,        \* history: per pixel index, how often it was written in this frame
    oob,           \* history: indices >= end_index written in this frame
    published,     \* history: frames placed into the slot, in order
    lateClaim,     \* history: a chunk was claimed while `stop` was already set
    atStop,        \* history: where the producer was when `stop` was set
    \* --- the intersection queries (SpecGeom)
    gpc,           \* position: "idle", "new", "bvh_hit", "list_hit", "each_hit", "done",
                   \* or "panicked"
    g_objects,     \* the slice of objects given to BvhNode::new and to the list
    g_ray,         \* the ray of the query
    g_tmin,        \* the query's t_min
    g_tmax,        \* the query's t_max
    g_axes,        \* the axes drawn while building the tree
    g_tree,        \* the BvhNode built from g_objects
    g_bvh,         \* what BvhNode::hit returned
    g_list,        \* what HittableList::hit returned
    g_each,        \* what each object's own hit returned
    \* --- one evaluation of ray_color (SpecRay)
    rpc,           \* position: "idle", "call", "return", "done"
    rc_objs,       \* the scene: the members of the HittableList
    rc_background, \* the background colour
    rc_depth0,     \* the depth of the outermost call
    rc_ray,        \* the ray of the call being entered
    rc_depth,      \* the depth of the call being entered
    rc_stack,      \* the calls waiting at main.rs:71 for their callee, innermost last
    rc_ret,        \* the value the last call returned
    rc_hits,       \* history: the number of times the scene was intersected
    rc_trace,      \* history: what every call did, outermost first
    \* --- one pixel of a frame (SpecPixel)
    xpc,           \* position: "idle", "start", "sample", "done"
    px_objs,       \* the scene: the members of the HittableList
    px_idx,        \* `idx`
    px_x,          \* `x`
    px_y,          \* `y`
    px_color,      \* `color`, the sum of the samples taken
    px_n,          \* the number of samples taken
    px_buffer      \* `buffer`, every other pixel of it still 0

vars == <<stop, swap_chain, mutex, ppc, frame, buffer, pixel_index, spawned, wpc,
          start_idx, idx, dpc, shown, claims, writes, oob, published,
          lateClaim, atStop, gpc, g_objects, g_ray, g_tmin, g_tmax, g_axes, g_tree, g_bvh,
          g_list, g_each, rpc, rc_objs, rc_background, rc_depth0, rc_ray, rc_depth,
          rc_stack, rc_ret, rc_hits, rc_trace, xpc, px_objs, px_idx, px_x, px_y,
          px_color, px_n, px_buffer>>

schedVars == <<stop, swap_chain, mutex, ppc, frame, buffer, pixel_index, spawned, wpc,
               start_idx, idx, dpc, shown, claims, writes, oob, published, lateClaim,
               atStop>>
geomVars == <<gpc, g_objects, g_ray, g_tmin, g_tmax, g_axes, g_tree, g_bvh, g_list, g_each>>
\* What the scheduler's steps leave alone.
rayVars == <<rpc, rc_objs, rc_background, rc_depth0, rc_ray, rc_depth, rc_stack, rc_ret,
             rc_hits, rc_trace>>
pixVars == <<xpc, px_objs, px_idx, px_x, px_y, px_color, px_n, px_buffer>>
queryVars == <<geomVars, rayVars, pixVars>>

producerVars == <<ppc, frame, buffer, pixel_index, spawned>>
workerVars == <<wpc, start_idx, idx>>
displayVars == <<dpc, shown>>
historyVars == <<claims, writes, oob, published, lateClaim, atStop>>

\* ================================================================ geometry
\* Lengths and ray parameters are fixed-point numbers in units of 0.0001, so
\* that the two small constants of the code are whole: 0.001 (main.rs:61) is
\* 10 and 0.0001 (aarect.rs:69-70) is 1. Directions are whole vectors. The
\* f32 values that are no numbers are kept as three marks: INFINITY,
\* -INFINITY and NaN, with the IEEE rules for them below.

\* f32::INFINITY (main.rs:61) and f32::NAN (0.0 * inf, aabb.rs:30-32)
INFINITY == 1000000000
NaN == 2000000000
\* main.rs:61  the lower bound 0.001 of every scene query
T_MIN == 10
\* aarect.rs:69-70  half the thickness 0.0001 of a rectangle's box
RECT_PAD == 1

NEG_INFINITY == -INFINITY
IsNaN(a) == a = NaN
IsInf(a) == a = INFINITY \/ a = NEG_INFINITY
IsFinite(a) == ~IsNaN(a) /\ ~IsInf(a)
Sign(a) == IF a > 0 THEN 1 ELSE IF a < 0 THEN -1 ELSE 0

\* IEEE comparisons: every comparison with NaN is false.
Lt(a, b) == ~IsNaN(a) /\ ~IsNaN(b) /\ a < b
Gt(a, b) == Lt(b, a)
Le(a, b) == ~IsNaN(a) /\ ~IsNaN(b) /\ a <= b

\* f32::max and f32::min: a NaN operand is ignored.
FMax(a, b) == IF IsNaN(a) THEN b ELSE IF IsNaN(b) THEN a ELSE IF a >= b THEN a ELSE b
FMin(a, b) == IF IsNaN(a) THEN b ELSE IF IsNaN(b) THEN a ELSE IF a <= b THEN a ELSE b

\* a * b
FMul(a, b) ==
    IF IsNaN(a) \/ IsNaN(b) THEN NaN
    ELSE IF IsInf(a) \/ IsInf(b)
      THEN (IF a = 0 \/ b = 0 THEN NaN ELSE Sign(a) * Sign(b) * INFINITY)
    ELSE a * b

\* a + b
FAdd(a, b) ==
    IF IsNaN(a) \/ IsNaN(b) THEN NaN
    ELSE IF IsInf(a) /\ IsInf(b) THEN (IF a = b THEN a ELSE NaN)
    ELSE IF IsInf(a) THEN a
    ELSE IF IsInf(b) THEN b
    ELSE a + b

\* a / b for numbers a, b, rounded toward zero; x/0 is an infinity, 0/0 is NaN.
FDiv(a, b) ==
    IF b = 0 THEN (IF a = 0 THEN NaN ELSE Sign(a) * INFINITY)
    ELSE Sign(a) * Sign(b) * ((Sign(a) * a) \div (Sign(b) * b))

\* f32::sqrt of a number >= 0, rounded down.
RECURSIVE SqrtFrom(_, _)
SqrtFrom(n, r) == IF (r + 1) * (r + 1) > n THEN r ELSE SqrtFrom(n, r + 1)
Sqrt(n) == SqrtFrom(n, 0)

\* Vec3
Dot(a, b) == a[1] * b[1] + a[2] * b[2] + a[3] * b[3]
VAdd(a, b) == <<FAdd(a[1], b[1]), FAdd(a[2], b[2]), FAdd(a[3], b[3])>>
VSub(a, b) == <<a[1] - b[1], a[2] - b[2], a[3] - b[3]>>
VNeg(a) == <<-a[1], -a[2], -a[3]>>
VScale(a, t) == <<FMul(a[1], t), FMul(a[2], t), FMul(a[3], t)>>
VMin(a, b) == <<FMin(a[1], b[1]), FMin(a[2], b[2]), FMin(a[3], b[3])>>
VMax(a, b) == <<FMax(a[1], b[1]), FMax(a[2], b[2]), FMax(a[3], b[3])>>

\* types.rs:8-24
Ray(origin, direction) == [origin |-> origin, direction |-> direction]
At(ray, t) == VAdd(ray.origin, VScale(ray.direction, t))

\* aabb.rs:4-15
AABB(min, max) == [min |-> min, max |-> max]

\* A surrounding_box that keeps the first box.
SurroundingBoxOfFirst(a, b) == AABB(a.min, a.max)

\* aabb.rs:17-21
SurroundingBox(a, b) == AABB(VMin(a.min, b.min), VMax(a.max, b.max))

\* aabb.rs:29-41  one turn of the loop over the axes: the interval after axis
\* i, or <<>> when the box is missed. (min - origin) * (1.0 / direction) is
\* computed as one division.
SlabStep(box, ray, i, t_min, t_max) ==
    LET d == ray.direction[i]
        a == FDiv(box.min[i] - ray.origin[i], d)
        b == FDiv(box.max[i] - ray.origin[i], d)
        t0 == IF d < 0 THEN b ELSE a
        t1 == IF d < 0 THEN a ELSE b
        lo == FMax(t0, t_min)
        hi == FMin(t1, t_max)
    IN  IF Le(hi, lo) THEN <<>> ELSE <<lo, hi>>

\* aabb.rs:23-45  AABB::hit
AABBHit(box, ray, t_min, t_max) ==
    LET s1 == SlabStep(box, ray, 1, t_min, t_max)
        s2 == IF s1 = <<>> THEN <<>> ELSE SlabStep(box, ray, 2, s1[1], s1[2])
        s3 == IF s2 = <<>> THEN <<>> ELSE SlabStep(box, ray, 3, s2[1], s2[2])
    IN  s3 # <<>>

\* A colour: Vec4 as <<r, g, b, a>>, in whole units.
Black == <<0, 0, 0, 0>>
CAdd(a, b) == [i \in 1..4 |-> FAdd(a[i], b[i])]
CMul(a, b) == [i \in 1..4 |-> FMul(a[i], b[i])]

\* material.rs:21-31, 54-66, 91-103, 133-143  the materials, each over one
\* texture. texture.rs:6-13, 28-32, 177-193: a texture's value is `color`
\* (SolidColor), and it is solid everywhere (the trait's default) unless it is
\* an image with transparent texels; the texture coordinates are functions of
\* the point hit, so those texels are kept as the set of points `holes`.
Lambertian(id, color, holes) ==
    [kind |-> "lambertian", id |-> id, color |-> color, holes |-> holes, fuzz |-> 0]
Metal(id, color, fuzz) ==
    [kind |-> "metal", id |-> id, color |-> color, holes |-> {}, fuzz |-> fuzz]
Dielectric(id, color) ==
    [kind |-> "dielectric", id |-> id, color |-> color, holes |-> {}, fuzz |-> 0]
DiffuseLight(id, color) ==
    [kind |-> "diffuse_light", id |-> id, color |-> color, holes |-> {}, fuzz |-> 0]

\* material.rs:40-42, 75-77, 106-108, 152-154  Material::hack_solid
HackSolid(material, p) ==
    IF material.kind = "diffuse_light" THEN TRUE ELSE p \notin material.holes

\* Option<HitResult>
None == [hit |-> FALSE]
Some(t, position, normal, front_face, material) ==
    [hit |-> TRUE, t |-> t, position |-> position, normal |-> normal,
     front_face |-> front_face, material |-> material]

\* obj.rs:85-91  Sphere::new
Sphere(center, radius, material) ==
    [kind |-> "sphere", center |-> center, radius |-> radius, material |-> material]

\* aarect.rs:17-26  XYRect::new (x0, x1, y0, y1, z); 85-94 XZRect::new;
\* 153-162 YZRect::new. a0..a1 and b0..b1 are the spans on the two axes of the
\* rectangle's plane, k its place on the third.
XYRect(a0, a1, b0, b1, k, material) ==
    [kind |-> "xyrect", a0 |-> a0, a1 |-> a1, b0 |-> b0, b1 |-> b1, k |-> k,
     material |-> material]
XZRect(a0, a1, b0, b1, k, material) ==
    [kind |-> "xzrect", a0 |-> a0, a1 |-> a1, b0 |-> b0, b1 |-> b1, k |-> k,
     material |-> material]
YZRect(a0, a1, b0, b1, k, material) ==
    [kind |-> "yzrect", a0 |-> a0, a1 |-> a1, b0 |-> b0, b1 |-> b1, k |-> k,
     material |-> material]

\* A Sphere::hit that goes on to the larger root when the transparency hack
\* rejects the point of the smaller one.
SphereHitRetry(s, ray, t_min, t_max) ==
    LET oc == VSub(ray.origin, s.center)
        a == Dot(ray.direction, ray.direction)
        half_b == Dot(oc, ray.direction)
        c == Dot(oc, oc) - s.radius * s.radius
        discriminant == half_b * half_b - a * c
        sqrt_disc == Sqrt(discriminant)
        roots == << FDiv(-half_b - sqrt_disc, a), FDiv(-half_b + sqrt_disc, a) >>
        ok == { k \in 1..2 : /\ ~(Lt(roots[k], t_min) \/ Gt(roots[k], t_max))
                             /\ HackSolid(s.material, At(ray, roots[k])) }
    IN  IF discriminant < 0 \/ ok = {} THEN None
        ELSE
          LET t == IF 1 \in ok THEN roots[1] ELSE roots[2]
              p == At(ray, t)
              outward_normal == VSub(p, s.center)
              front_face == Dot(ray.direction, outward_normal) < 0
              normal == IF front_face THEN outward_normal ELSE VNeg(outward_normal)
          IN  Some(t, p, normal, front_face, s.material)

\* obj.rs:95-145  Sphere::hit. The normal is kept times the radius: only its
\* direction is read.
SphereHit(s, ray, t_min, t_max) ==
    LET oc == VSub(ray.origin, s.center)
        a == Dot(ray.direction, ray.direction)
        half_b == Dot(oc, ray.direction)
        c == Dot(oc, oc) - s.radius * s.radius
        discriminant == half_b * half_b - a * c
    IN  IF discriminant < 0 THEN None
        ELSE
          LET sqrt_disc == Sqrt(discriminant)
              root1 == FDiv(-half_b - sqrt_disc, a)
              root2 == FDiv(-half_b + sqrt_disc, a)
              first == ~(Lt(root1, t_min) \/ Gt(root1, t_max))
              second == ~(Lt(root2, t_min) \/ Gt(root2, t_max))
          IN  IF ~first /\ ~second THEN None
              ELSE
                LET t == IF first THEN root1 ELSE root2
                    p == At(ray, t)
                    outward_normal == VSub(p, s.center)
                    front_face == Dot(ray.direction, outward_normal) < 0
                    normal == IF front_face THEN outward_normal ELSE VNeg(outward_normal)
                IN  IF ~HackSolid(s.material, p) THEN None
                    ELSE Some(t, p, normal, front_face, s.material)

\* The three axes of a rectangle: the one it is flat on, and the two it spans.
\* aarect.rs:7-14 (XY), 75-82 (XZ), 143-150 (YZ)
FlatAxis(r) == CASE r.kind = "xyrect" -> 3 [] r.kind = "xzrect" -> 2 [] r.kind = "yzrect" -> 1
FirstAxis(r) == CASE r.kind = "xyrect" -> 1 [] r.kind = "xzrect" -> 1 [] r.kind = "yzrect" -> 2
SecondAxis(r) == CASE r.kind = "xyrect" -> 2 [] r.kind = "xzrect" -> 3 [] r.kind = "yzrect" -> 3
UnitVector(i) == [j \in 1..3 |-> IF j = i THEN 1 ELSE 0]

\* aarect.rs:30-64 (XY), 98-132 (XZ), 166-200 (YZ)  the rectangles' hit
RectHit(r, ray, t_min, t_max) ==
    LET k == FlatAxis(r)
        i == FirstAxis(r)
        j == SecondAxis(r)
        t == FDiv(r.k - ray.origin[k], ray.direction[k])
    IN  IF Lt(t, t_min) \/ Gt(t, t_max) THEN None
        ELSE
          LET a == FAdd(ray.origin[i], FMul(t, ray.direction[i]))
              b == FAdd(ray.origin[j], FMul(t, ray.direction[j]))
          IN  IF Lt(a, r.a0) \/ Gt(a, r.a1) \/ Lt(b, r.b0) \/ Gt(b, r.b1) THEN None
              ELSE
                LET outward_normal == UnitVector(k)
                    front_face == Dot(ray.direction, outward_normal) < 0
                    normal == IF front_face THEN outward_normal ELSE VNeg(outward_normal)
                    position == At(ray, t)
                IN  IF ~HackSolid(r.material, position) THEN None
                    ELSE Some(t, position, normal, front_face, r.material)

\* aarect.rs:67-72, 135-140, 203-208  the rectangles' bounding_box
RectBox(r) ==
    LET k == FlatAxis(r)
        i == FirstAxis(r)
        j == SecondAxis(r)
    IN  AABB([x \in 1..3 |-> IF x = k THEN r.k - RECT_PAD ELSE IF x = i THEN r.a0 ELSE r.b0],
             [x \in 1..3 |-> IF x = k THEN r.k + RECT_PAD ELSE IF x = i THEN r.a1 ELSE r.b1])

\* obj.rs:147-150  Sphere::bounding_box
SphereBox(s) ==
    LET rv == <<s.radius, s.radius, s.radius>>
    IN  AABB(VSub(s.center, rv), VAdd(s.center, rv))

\* obj.rs:21, bvh.rs:79-81, obj.rs:299-301  Hittable::bounding_box
BoundingBox(obj) ==
    CASE obj.kind = "sphere" -> SphereBox(obj)
      [] obj.kind \in {"xyrect", "xzrect", "yzrect"} -> RectBox(obj)
      [] obj.kind \in {"bvh", "translate"} -> obj.bbox

\* obj.rs:269-277  Translate::new
Translate(obj, translation) ==
    LET bbox == BoundingBox(obj)
    IN  [kind |-> "translate", obj |-> obj, translation |-> translation,
         bbox |-> AABB(VAdd(bbox.min, translation), VAdd(bbox.max, translation))]

RECURSIVE Hit(_, _, _, _)

\* bvh.rs:61-77  BvhNode::hit
BvhHit(node, ray, t_min, t_max) ==
    IF ~AABBHit(node.bbox, ray, t_min, t_max) THEN None
    ELSE
      LET left == Hit(node.left, ray, t_min, t_max)
      IN  IF left.hit
            THEN LET right == Hit(node.right, ray, t_min, left.t)
                 IN  IF right.hit THEN right ELSE left
            ELSE Hit(node.right, ray, t_min, t_max)

\* obj.rs:281-297  Translate::hit
TranslateHit(tr, ray, t_min, t_max) ==
    LET moved_ray == Ray(VSub(ray.origin, tr.translation), ray.direction)
        res == Hit(tr.obj, moved_ray, t_min, t_max)
    IN  IF ~res.hit THEN None
        ELSE
          LET front_face == Dot(moved_ray.direction, res.normal) < 0
              normal == IF front_face THEN res.normal ELSE VNeg(res.normal)
          IN  Some(res.t, VAdd(res.position, tr.translation), normal, front_face,
                   res.material)

\* obj.rs:18-22  Hittable::hit, by variant
Hit(obj, ray, t_min, t_max) ==
    CASE obj.kind = "sphere" -> SphereHit(obj, ray, t_min, t_max)
      [] obj.kind \in {"xyrect", "xzrect", "yzrect"} -> RectHit(obj, ray, t_min, t_max)
      [] obj.kind = "bvh" -> BvhHit(obj, ray, t_min, t_max)
      [] obj.kind = "translate" -> TranslateHit(obj, ray, t_min, t_max)

\* A scan that queries every member with the upper bound it was given first.
RECURSIVE ListScanSameBound(_, _, _, _, _, _)
ListScanSameBound(objs, i, ray, t_min, closest, best) ==
    IF i > Len(objs) THEN best
    ELSE LET res == Hit(objs[i], ray, t_min, closest)
         IN  IF res.hit THEN ListScanSameBound(objs, i + 1, ray, t_min, closest, res)
             ELSE ListScanSameBound(objs, i + 1, ray, t_min, closest, best)

\* obj.rs:50-61  HittableList::hit: `best` after the members from position i on
\* have been scanned, given best and closest so far
RECURSIVE ListScan(_, _, _, _, _, _)
ListScan(objs, i, ray, t_min, closest, best) ==
    IF i > Len(objs) THEN best
    ELSE LET res == Hit(objs[i], ray, t_min, closest)
         IN  IF res.hit THEN ListScan(objs, i + 1, ray, t_min, res.t, res)
             ELSE ListScan(objs, i + 1, ray, t_min, closest, best)

ListHit(objs, ray, t_min, t_max) == ListScan(objs, 1, ray, t_min, t_max, None)

\* bvh.rs:22-26  cmp: the order of the two boxes' minima on the axis (0, 1, 2)
Greater(a, b, axis) == BoundingBox(a).min[axis + 1] > BoundingBox(b).min[axis + 1]

\* bvh.rs:42  copy.sort_by(cmp): a stable sort, here by insertion
RECURSIVE InsertSorted(_, _, _)
InsertSorted(sorted, x, axis) ==
    IF sorted = <<>> THEN <<x>>
    ELSE IF Greater(sorted[Len(sorted)], x, axis)
      THEN Append(InsertSorted(SubSeq(sorted, 1, Len(sorted) - 1), x, axis),
                  sorted[Len(sorted)])
      ELSE Append(sorted, x)

\* A sort_by that leaves the slice as it was.
SortByNothing(objs, axis) == objs

RECURSIVE SortBy(_, _)
SortBy(objs, axis) ==
    IF objs = <<>> THEN <<>>
    ELSE InsertSorted(SortBy(SubSeq(objs, 1, Len(objs) - 1), axis), objs[Len(objs)], axis)

BvhNode(left, right) ==
    [kind |-> "bvh", left |-> left, right |-> right,
     bbox |-> SurroundingBox(BoundingBox(left), BoundingBox(right))]

\* bvh.rs:19, 29  debug_assert_ne!(objects.len(), 0, ..) and panic!("No
\* objects"): the call unwinds and returns no node.
Panic == [kind |-> "panic"]

\* A midpoint one below the middle.
MidLessOne(len) == len \div 2 - 1

\* bvh.rs:44  let mid = copy.len() / 2
Mid(len) == len \div 2

\* bvh.rs:18-57  BvhNode::new. `axes` holds the random axis drawn by every
\* call: the call that builds node n (the root is 1, the children of n are 2n
\* and 2n+1) draws axes[n]. A panic of a recursive call unwinds through its
\* callers.
RECURSIVE BvhNew(_, _, _)
BvhNew(objects, axes, n) ==
    LET axis == axes[n]
    IN  CASE Len(objects) = 0 -> Panic
          [] Len(objects) = 1 -> BvhNode(objects[1], objects[1])
          [] Len(objects) = 2 ->
               IF Greater(objects[1], objects[2], axis)
                 THEN BvhNode(objects[2], objects[1])
                 ELSE BvhNode(objects[1], objects[2])
          [] Len(objects) >= 3 ->
               LET copy == SortBy(objects, axis)
                   mid == Mid(Len(copy))
                   left == BvhNew(SubSeq(copy, 1, mid), axes, 2 * n)
                   right == BvhNew(SubSeq(copy, mid + 1, Len(copy)), axes, 2 * n + 1)
               IN  IF left = Panic THEN Panic
                   ELSE IF right = Panic THEN Panic
                   ELSE BvhNode(left, right)

\* The greatest node number BvhNew(objects, axes, n) reads for Len(objects) = len.
RECURSIVE LastNode(_, _)
LastNode(len, n) == IF len <= 2 THEN n ELSE LastNode(len - len \div 2, 2 * n + 1)

\* =============================================================== scheduler

\* Frame number a buffer was rendered in: 0 for the initial all-zero buffer.
FrameOf(buf) == buf[0][1]

\* State after render_mt's set-up (main.rs:109-118, 181): the slot holds the zero
\* buffer, the flag is clear, the producer thread is at its loop test and the
\* display loop at its own.
SchedInit ==
    /\ stop = FALSE
    /\ swap_chain = ZeroBuffer
    /\ mutex = "free"
    /\ ppc = "loop"
    /\ frame = 0
    /\ buffer = ZeroBuffer
    /\ pixel_index = 0
    /\ spawned = 0
    /\ wpc = [w \in Workers |-> "none"]
    /\ start_idx = [w \in Workers |-> 0]
    /\ idx = [w \in Workers |-> 0]
    /\ dpc = "loop"
    /\ shown = ZeroBuffer
    /\ claims = [i \in Pixels |-> 0]
    /\ writes = [i \in Pixels |-> 0]
    /\ oob = {}
    /\ published = <<>>
    /\ lateClaim = FALSE
    /\ atStop = [ppc |-> "loop", frame |-> 0, published |-> 0]

\* ------------------------------------------------------------ the producer

\* ProducerLoopTest that does not look at the flag
ProducerLoopTestNoStop ==
    /\ ppc = "loop"
    /\ frame < MaxFrames
    /\ ppc' = "frame"
    /\ UNCHANGED <<stop, swap_chain, mutex, frame, buffer, pixel_index, spawned>>
    /\ UNCHANGED <<workerVars, displayVars, historyVars>>
    /\ UNCHANGED queryVars

\* main.rs:119  while !stop.load(Ordering::Relaxed)
\* (the flag is one atomic location: a load returns the last value stored)
ProducerLoopTest ==
    /\ ppc = "loop"
    /\ stop \/ frame < MaxFrames
    /\ ppc' = IF stop THEN "exit" ELSE "frame"
    /\ UNCHANGED <<stop, swap_chain, mutex, frame, buffer, pixel_index, spawned>>
    /\ UNCHANGED <<workerVars, displayVars, historyVars>>
    /\ UNCHANGED queryVars

\* main.rs:120-130  a fresh zeroed buffer and a fresh pixel counter
ProducerNewFrame ==
    /\ ppc = "frame"
    /\ frame' = frame + 1
    /\ buffer' = ZeroBuffer
    /\ pixel_index' = 0
    /\ spawned' = 0
    /\ claims' = [i \in Pixels |-> 0]
    /\ writes' = [i \in Pixels |-> 0]
    /\ oob' = {}
    /\ ppc' = "spawn"
    /\ UNCHANGED <<stop, swap_chain, mutex, workerVars, displayVars, published, lateClaim,
                   atStop>>
    /\ UNCHANGED queryVars

\* main.rs:131-164  std::thread::scope: for _ in 0..par { s.spawn(..) }
ProducerSpawn ==
    /\ ppc = "spawn"
    /\ IF spawned < par
         THEN /\ spawned' = spawned + 1
              /\ wpc' = [wpc EXCEPT ![spawned + 1] = "claim"]
              /\ ppc' = ppc
         ELSE /\ ppc' = "join"
              /\ UNCHANGED <<spawned, wpc>>
    /\ UNCHANGED <<stop, swap_chain, mutex, frame, buffer, pixel_index, start_idx, idx>>
    /\ UNCHANGED <<displayVars, historyVars>>
    /\ UNCHANGED queryVars

\* ProducerJoin that does not wait for the spawned threads
ProducerJoinNoWait ==
    /\ ppc = "join"
    /\ ppc' = "lock"
    /\ UNCHANGED <<stop, swap_chain, mutex, frame, buffer, pixel_index, spawned>>
    /\ UNCHANGED <<workerVars, displayVars, historyVars>>
    /\ UNCHANGED queryVars

\* main.rs:165  the scope returns once every spawned thread has finished
ProducerJoin ==
    /\ ppc = "join"
    /\ \A w \in Workers : wpc[w] = "finished"
    /\ wpc' = [w \in Workers |-> "none"]
    /\ start_idx' = [w \in Workers |-> 0]
    /\ idx' = [w \in Workers |-> 0]
    /\ ppc' = "lock"
    /\ UNCHANGED <<stop, swap_chain, mutex, frame, buffer, pixel_index, spawned>>
    /\ UNCHANGED <<displayVars, historyVars>>
    /\ UNCHANGED queryVars

\* main.rs:175  swap_chain.lock().unwrap()
ProducerLock ==
    /\ ppc = "lock"
    /\ mutex = "free"
    /\ mutex' = "producer"
    /\ ppc' = "set"
    /\ UNCHANGED <<stop, swap_chain, frame, buffer, pixel_index, spawned>>
    /\ UNCHANGED <<workerVars, displayVars, historyVars>>
    /\ UNCHANGED queryVars

\* ProducerSet that waits until the display has copied the slot's frame
ProducerSetAfterRead ==
    /\ ppc = "set"
    /\ shown = swap_chain
    /\ swap_chain' = buffer
    /\ published' = Append(published, frame)
    /\ mutex' = "free"
    /\ ppc' = "loop"
    /\ UNCHANGED <<stop, frame, buffer, pixel_index, spawned>>
    /\ UNCHANGED <<workerVars, displayVars, claims, writes, oob, lateClaim, atStop>>
    /\ UNCHANGED queryVars

\* main.rs:175  .set(buffer); the guard is a temporary, dropped at the end of
\* the statement
ProducerSet ==
    /\ ppc = "set"
    /\ swap_chain' = buffer
    /\ published' = Append(published, frame)
    /\ mutex' = "free"
    /\ ppc' = "loop"
    /\ UNCHANGED <<stop, frame, buffer, pixel_index, spawned>>
    /\ UNCHANGED <<workerVars, displayVars, claims, writes, oob, lateClaim, atStop>>
    /\ UNCHANGED queryVars

\* -------------------------------------------------------------- the workers

\* ChunkEnd without the .min(end_index)
ChunkEndUnclamped(s) == s + pixels_per_iter

\* main.rs:143  (start_idx + pixels_per_iter).min(end_index)
ChunkEnd(s) == Min(s + pixels_per_iter, end_index)

\* WorkerClaim that tests the counter first and adds only when a chunk is left
WorkerClaimTestFirst(w) ==
    /\ wpc[w] = "claim"
    /\ start_idx' = [start_idx EXCEPT ![w] = pixel_index]
    /\ IF pixel_index >= end_index
         THEN /\ wpc' = [wpc EXCEPT ![w] = "finished"]
              /\ UNCHANGED <<pixel_index, idx, claims, lateClaim>>
         ELSE /\ pixel_index' = pixel_index + pixels_per_iter
              /\ wpc' = [wpc EXCEPT ![w] = "render"]
              /\ idx' = [idx EXCEPT ![w] = pixel_index]
              /\ claims' = [i \in Pixels |->
                              IF pixel_index <= i /\ i < ChunkEnd(pixel_index)
                                THEN claims[i] + 1 ELSE claims[i]]
              /\ lateClaim' = (lateClaim \/ stop)
    /\ UNCHANGED <<stop, swap_chain, mutex, ppc, frame, buffer, spawned>>
    /\ UNCHANGED <<displayVars, writes, oob, published, atStop>>
    /\ UNCHANGED queryVars

\* main.rs:138-142  fetch_add, then the test of start_idx against end_index
WorkerClaim(w) ==
    /\ wpc[w] = "claim"
    /\ pixel_index' = pixel_index + pixels_per_iter
    /\ start_idx' = [start_idx EXCEPT ![w] = pixel_index]
    /\ IF pixel_index >= end_index
         THEN /\ wpc' = [wpc EXCEPT ![w] = "finished"]
              /\ UNCHANGED <<idx, claims, lateClaim>>
         ELSE /\ wpc' = [wpc EXCEPT ![w] = "render"]
              /\ idx' = [idx EXCEPT ![w] = pixel_index]
              /\ claims' = [i \in Pixels |->
                              IF pixel_index <= i /\ i < ChunkEnd(pixel_index)
                                THEN claims[i] + 1 ELSE claims[i]]
              /\ lateClaim' = (lateClaim \/ stop)
    /\ UNCHANGED <<stop, swap_chain, mutex, ppc, frame, buffer, spawned>>
    /\ UNCHANGED <<displayVars, writes, oob, published, atStop>>
    /\ UNCHANGED queryVars

\* WorkerWrite that gives its chunk up when the flag is set
WorkerWriteCancellable(w) ==
    /\ wpc[w] = "render"
    /\ IF stop
         THEN /\ wpc' = [wpc EXCEPT ![w] = "claim"]
              /\ UNCHANGED <<buffer, writes, idx>>
         ELSE /\ buffer' = [buffer EXCEPT ![idx[w]] =
                              <<frame, idx[w] % WIDTH, idx[w] \div WIDTH>>]
              /\ writes' = [writes EXCEPT ![idx[w]] = @ + 1]
              /\ idx' = [idx EXCEPT ![w] = @ + 1]
              /\ wpc' = [wpc EXCEPT ![w] =
                           IF idx[w] + 1 < ChunkEnd(start_idx[w]) THEN "render" ELSE "claim"]
    /\ UNCHANGED <<stop, swap_chain, mutex, ppc, frame, pixel_index, spawned, start_idx>>
    /\ UNCHANGED <<displayVars, claims, oob, published, lateClaim, atStop>>
    /\ UNCHANGED queryVars

\* main.rs:144-160  one iteration of the for loop: the pixel at idx is rendered
\* and written through the raw pointer
WorkerWrite(w) ==
    /\ wpc[w] = "render"
    /\ IF idx[w] < end_index
         THEN /\ buffer' = [buffer EXCEPT ![idx[w]] =
                              <<frame, idx[w] % WIDTH, idx[w] \div WIDTH>>]
              /\ writes' = [writes EXCEPT ![idx[w]] = @ + 1]
              /\ oob' = oob
         ELSE /\ oob' = oob \cup {idx[w]}
              /\ UNCHANGED <<buffer, writes>>
    /\ idx' = [idx EXCEPT ![w] = @ + 1]
    /\ wpc' = [wpc EXCEPT ![w] =
                 IF idx[w] + 1 < ChunkEnd(start_idx[w]) THEN "render" ELSE "claim"]
    /\ UNCHANGED <<stop, swap_chain, mutex, ppc, frame, pixel_index, spawned, start_idx>>
    /\ UNCHANGED <<displayVars, claims, published, lateClaim, atStop>>
    /\ UNCHANGED queryVars

\* ------------------------------------------------------------- the display

\* main.rs:182  while window.is_open() && !window.is_key_down(Key::Escape)
DisplayLoopTest ==
    /\ dpc = "loop"
    /\ \E open \in BOOLEAN : dpc' = IF open THEN "lock" ELSE "store"
    /\ UNCHANGED <<stop, swap_chain, mutex, shown>>
    /\ UNCHANGED <<producerVars, workerVars, historyVars>>
    /\ UNCHANGED queryVars

\* main.rs:183  let mut lock = swap_chain.lock().unwrap();
DisplayLock ==
    /\ dpc = "lock"
    /\ mutex = "free"
    /\ mutex' = "display"
    /\ dpc' = "copy"
    /\ UNCHANGED <<stop, swap_chain, shown>>
    /\ UNCHANGED <<producerVars, workerVars, historyVars>>
    /\ UNCHANGED queryVars

\* DisplayCopy without the drop(lock)
DisplayCopyKeepLock ==
    /\ dpc = "copy"
    /\ shown' = swap_chain
    /\ dpc' = "present"
    /\ UNCHANGED <<stop, swap_chain, mutex>>
    /\ UNCHANGED <<producerVars, workerVars, historyVars>>
    /\ UNCHANGED queryVars

\* main.rs:184-185  let buffer = lock.get_mut().clone(); drop(lock);
DisplayCopy ==
    /\ dpc = "copy"
    /\ shown' = swap_chain
    /\ mutex' = "free"
    /\ dpc' = "present"
    /\ UNCHANGED <<stop, swap_chain>>
    /\ UNCHANGED <<producerVars, workerVars, historyVars>>
    /\ UNCHANGED queryVars

\* main.rs:186-188  window.update_with_buffer(&buffer, WIDTH, HEIGHT)
DisplayPresent ==
    /\ dpc = "present"
    /\ dpc' = "loop"
    /\ UNCHANGED <<stop, swap_chain, mutex, shown>>
    /\ UNCHANGED <<producerVars, workerVars, historyVars>>
    /\ UNCHANGED queryVars

\* main.rs:190  stop.store(true, Ordering::Relaxed)
DisplayStop ==
    /\ dpc = "store"
    /\ stop' = TRUE
    /\ dpc' = "returned"
    /\ atStop' = [ppc |-> ppc, frame |-> frame, published |-> Len(published)]
    /\ UNCHANGED <<swap_chain, mutex, shown>>
    /\ UNCHANGED <<producerVars, workerVars, claims, writes, oob, published, lateClaim>>
    /\ UNCHANGED queryVars

Next ==
    \/ ProducerLoopTest
    \/ ProducerNewFrame
    \/ ProducerSpawn
    \/ ProducerJoin
    \/ ProducerLock
    \/ ProducerSet
    \/ \E w \in Workers : WorkerClaim(w)
    \/ \E w \in Workers : WorkerWrite(w)
    \/ DisplayLoopTest
    \/ DisplayLock
    \/ DisplayCopy
    \/ DisplayPresent
    \/ DisplayStop

\* No evaluation of ray_color is followed while the scheduler runs.
RayIdle ==
    /\ rpc = "idle"
    /\ rc_objs = <<>>
    /\ rc_background = Black
    /\ rc_depth0 = 0
    /\ rc_ray = Ray(<<0, 0, 0>>, <<0, 0, 0>>)
    /\ rc_depth = 0
    /\ rc_stack = <<>>
    /\ rc_ret = Black
    /\ rc_hits = 0
    /\ rc_trace = <<>>

\* No intersection query is under way while the scheduler runs.
GeomIdle ==
    /\ gpc = "idle"
    /\ g_objects = <<>>
    /\ g_ray = Ray(<<0, 0, 0>>, <<0, 0, 0>>)
    /\ g_tmin = 0
    /\ g_tmax = 0
    /\ g_axes = <<>>
    /\ g_tree = None
    /\ g_bvh = None
    /\ g_list = None
    /\ g_each = <<>>

\* No pixel is followed on its own while the scheduler runs.
PixIdle ==
    /\ xpc = "idle"
    /\ px_objs = <<>>
    /\ px_idx = 0
    /\ px_x = 0
    /\ px_y = 0
    /\ px_color = <<0, 0, 0>>
    /\ px_n = 0
    /\ px_buffer = [i \in Pixels |-> <<0, 0>>]

Init == SchedInit /\ GeomIdle /\ RayIdle /\ PixIdle

Spec == Init /\ [][Next]_vars

\* A fair scheduler runs every thread that can take a step; the display loop's
\* steps depend on the window and the keyboard and get no fairness.
FairSpec ==
    /\ Spec
    /\ WF_vars(ProducerLoopTest)
    /\ WF_vars(ProducerNewFrame)
    /\ WF_vars(ProducerSpawn)
    /\ WF_vars(ProducerJoin)
    /\ WF_vars(ProducerLock)
    /\ WF_vars(ProducerSet)
    /\ \A w \in Workers : WF_vars(WorkerClaim(w)) /\ WF_vars(WorkerWrite(w))

\* A fair lock: a thread that asks for the mutex again and again while it is
\* free again and again gets it, and a thread that holds it runs on to its
\* release.
FairLockSpec ==
    /\ Spec
    /\ SF_vars(ProducerLock)
    /\ SF_vars(DisplayLock)
    /\ WF_vars(ProducerSet)
    /\ WF_vars(DisplayCopy)

\* ======================================================= intersection queries

\* The greatest number of objects given to BvhNode::new.
MaxObjects == 3

\* The objects the queries are made of. Lengths are in units of 0.0001.
\* The first two spheres touch the ray along x from (-50, 0, 0) at the same t.
ObjectPool ==
    << Sphere(<<0, 0, 0>>, 20, Lambertian(1, <<2, 1, 3, 1>>, {<<0, 0, 20>>})),
       Sphere(<<10, 0, 0>>, 30, Metal(2, <<1, 2, 1, 1>>, 15)),
       Sphere(<<80, 0, 0>>, 10, DiffuseLight(3, <<4, 4, 2, 8>>)),
       XYRect(-10, 10, -10, 10, 40, Lambertian(4, <<2, 1, 1, 1>>, {<<5, 0, 40>>})),
       Translate(Sphere(<<0, 0, 0>>, 10, Dielectric(5, <<2, 1, 2, 1>>)), <<0, 0, 115>>) >>

RayPool ==
    { Ray(<<-50, 0, 0>>, <<1, 0, 0>>),
      Ray(<<0, 0, -50>>, <<0, 0, 1>>),
      Ray(<<0, 0, 150>>, <<0, 0, -1>>),
      Ray(<<5, 0, -50>>, <<0, 0, 1>>),
      Ray(<<-50, -50, 0>>, <<1, 1, 0>>) }

\* <<t_min, t_max>>; the first is the interval ray_color asks for (main.rs:61)
IntervalPool == { <<T_MIN, INFINITY>>, <<0, 30>>, <<30, 200>>, <<90, 1000>> }

RECURSIVE SeqsUpTo(_)
\* The sequences of up to n distinct pool members, as sequences of pool indices.
SeqsUpTo(n) ==
    IF n = 0 THEN { <<>> }
    ELSE LET shorter == SeqsUpTo(n - 1)
         IN  shorter \cup { Append(q, i) : q \in { r \in shorter : Len(r) = n - 1 },
                                           i \in DOMAIN ObjectPool }

Distinct(q) == \A i, j \in DOMAIN q : i # j => q[i] # q[j]

ObjectLists ==
    { [i \in DOMAIN q |-> ObjectPool[q[i]]] :
        q \in { r \in SeqsUpTo(MaxObjects) : r # <<>> /\ Distinct(r) } }

\* A query: some objects in some order (or none: the empty slice), a ray and
\* an interval.
GeomInit ==
    /\ gpc = "new"
    /\ g_objects \in ObjectLists \cup { <<>> }
    /\ g_ray \in RayPool
    /\ \E iv \in IntervalPool : g_tmin = iv[1] /\ g_tmax = iv[2]
    /\ g_axes = <<>>
    /\ g_tree = None
    /\ g_bvh = None
    /\ g_list = None
    /\ g_each = <<>>

\* bvh.rs:18-57  BvhNode::new(objects), every call drawing its axis (line 21)
BvhNodeNew ==
    /\ gpc = "new"
    /\ \E axes \in [1..LastNode(Len(g_objects), 1) -> 0..2] :
         LET node == BvhNew(g_objects, axes, 1)
         IN  /\ g_axes' = axes
             /\ g_tree' = IF node = Panic THEN g_tree ELSE node
             /\ gpc' = IF node = Panic THEN "panicked" ELSE "bvh_hit"
    /\ UNCHANGED <<g_objects, g_ray, g_tmin, g_tmax, g_bvh, g_list, g_each>>
    /\ UNCHANGED <<schedVars, rayVars, pixVars>>

\* bvh.rs:61-77  BvhNode::hit on the tree built
BvhNodeHit ==
    /\ gpc = "bvh_hit"
    /\ g_bvh' = BvhHit(g_tree, g_ray, g_tmin, g_tmax)
    /\ gpc' = "list_hit"
    /\ UNCHANGED <<g_objects, g_ray, g_tmin, g_tmax, g_axes, g_tree, g_list, g_each>>
    /\ UNCHANGED <<schedVars, rayVars, pixVars>>

\* obj.rs:50-61  HittableList::hit over the same objects, in the order given
HittableListHit ==
    /\ gpc = "list_hit"
    /\ g_list' = ListHit(g_objects, g_ray, g_tmin, g_tmax)
    /\ gpc' = "each_hit"
    /\ UNCHANGED <<g_objects, g_ray, g_tmin, g_tmax, g_axes, g_tree, g_bvh, g_each>>
    /\ UNCHANGED <<schedVars, rayVars, pixVars>>

\* obj.rs:18-22  Hittable::hit of every object on its own
HittableHit ==
    /\ gpc = "each_hit"
    /\ g_each' = [i \in DOMAIN g_objects |-> Hit(g_objects[i], g_ray, g_tmin, g_tmax)]
    /\ gpc' = "done"
    /\ UNCHANGED <<g_objects, g_ray, g_tmin, g_tmax, g_axes, g_tree, g_bvh, g_list>>
    /\ UNCHANGED <<schedVars, rayVars, pixVars>>

GeomNext ==
    \/ BvhNodeNew
    \/ BvhNodeHit
    \/ HittableListHit
    \/ HittableHit

InitGeom == SchedInit /\ GeomInit /\ RayIdle /\ PixIdle

SpecGeom == InitGeom /\ [][GeomNext]_vars

\* ================================================================= ray_color

\* The greatest depth ray_color is entered with (MAX_DEPTH is 480, main.rs:35).
MaxDepth == 3

\* material.rs:13-15, 156-158  Material::emitted
\* Material::emitted as its default alone: the light's override is lost.
EmittedDefault(material) == Black

\* material.rs:13-15  Material::emitted, black unless overridden;
\* material.rs:156-158  DiffuseLight: the value of its texture
Emitted(material) == IF material.kind = "diffuse_light" THEN material.color ELSE Black

\* The directions a scattered ray is drawn from.
Dirs ==
    { <<1, 0, 0>>, <<-1, 0, 0>>, <<0, 1, 0>>, <<0, -1, 0>>, <<0, 0, 1>>, <<0, 0, -1>>,
      <<1, 1, 0>>, <<-1, -1, 0>> }

\* Option<(Color, Ray)>
Absorbed == [some |-> FALSE]
Scattered(attenuation, scattered) ==
    [some |-> TRUE, attenuation |-> attenuation, scattered |-> scattered]

\* Material::scatter: the set of results the random draws allow.
\* material.rs:44-50 Lambertian: always scatters; normal + random unit vector
\*   (the normal itself when that sum is near zero) is any direction on the
\*   normal's side.
\* material.rs:79-87 Metal: reflected + fuzz * random_in_unit_sphere is any
\*   direction when fuzz > 1 (1.5 at main.rs:353); scatters iff that direction
\*   is on the normal's side.
\* material.rs:110-129 Dielectric: always scatters, reflected (on the normal's
\*   side) or refracted (on the other side).
\* material.rs:160-162 DiffuseLight: never scatters.
Scatter(material, hr) ==
    LET outward == { d \in Dirs : Dot(d, hr.normal) > 0 }
        inward == { d \in Dirs : Dot(d, hr.normal) < 0 }
    IN  CASE material.kind = "lambertian" ->
               { Scattered(material.color, Ray(hr.position, d)) : d \in outward }
          [] material.kind = "metal" ->
               { Scattered(material.color, Ray(hr.position, d)) : d \in outward }
                 \cup { Absorbed }
          [] material.kind = "dielectric" ->
               { Scattered(material.color, Ray(hr.position, d)) : d \in outward \cup inward }
          [] material.kind = "diffuse_light" -> { Absorbed }

\* The scenes ray_color is evaluated in: the empty list, lists of objects, and a
\* list holding one BvhNode (as main.rs builds it).
ScenePool ==
    { <<>>,
      <<ObjectPool[1], Sphere(<<-80, 0, 0>>, 10, DiffuseLight(6, <<4, 4, 2, 8>>))>>,
      <<ObjectPool[4], ObjectPool[5], ObjectPool[2]>>,
      <<ObjectPool[1], Sphere(<<-80, 0, 0>>, 10, Metal(7, <<1, 2, 1, 1>>, 15))>>,
      << BvhNew(<<ObjectPool[1], ObjectPool[2], ObjectPool[3]>>, <<0, 1, 2>>, 1) >>,
      <<ObjectPool[3]>>,
      <<ObjectPool[3], XYRect(-10, 10, -10, 10, 40, DiffuseLight(10, <<9, 9, 9, 1>>))>> }

\* White is the background render_mt passes (main.rs:154).
BackgroundPool == { <<1, 1, 1, 1>>, <<2, 3, 5, 7>> }

\* One record of rc_trace.
Call(depth, ray, kind, emitted, attenuation) ==
    [depth |-> depth, ray |-> ray, kind |-> kind, emitted |-> emitted,
     attenuation |-> attenuation]

\* ray_color(ray, background, objs, depth) is about to be entered.
RayInit ==
    /\ rpc = "call"
    /\ rc_objs \in ScenePool
    /\ rc_background \in BackgroundPool
    /\ rc_depth0 \in 0..MaxDepth
    /\ rc_depth = rc_depth0
    /\ rc_ray \in RayPool
    /\ rc_stack = <<>>
    /\ rc_ret = Black
    /\ rc_hits = 0
    /\ rc_trace = <<>>

\* main.rs:61  objs.hit(ray, 0.001, f32::INFINITY)
SceneHit == ListHit(rc_objs, rc_ray, T_MIN, INFINITY)

\* main.rs:58-60  depth 0: black
ReturnBlack ==
    /\ rc_ret' = Black
    /\ rpc' = "return"
    /\ rc_trace' = Append(rc_trace, Call(rc_depth, rc_ray, "black", Black, Black))
    /\ UNCHANGED <<rc_ray, rc_depth, rc_stack>>

\* main.rs:63  the scene is missed: the background
ReturnBackground ==
    /\ rc_ret' = rc_background
    /\ rpc' = "return"
    /\ rc_trace' = Append(rc_trace, Call(rc_depth, rc_ray, "miss", Black, Black))
    /\ UNCHANGED <<rc_ray, rc_depth, rc_stack>>

\* main.rs:66-72  the scene is hit: emitted alone if the material absorbs, else
\* the recursive call of line 71 is entered with depth - 1
ScatterOrReturnEmitted ==
    \E res \in Scatter(SceneHit.material, SceneHit) :
        \/ /\ ~res.some
           /\ rc_ret' = Emitted(SceneHit.material)
           /\ rpc' = "return"
           /\ rc_trace' = Append(rc_trace, Call(rc_depth, rc_ray, "absorb",
                                                Emitted(SceneHit.material), Black))
           /\ UNCHANGED <<rc_ray, rc_depth, rc_stack>>
        \/ /\ res.some
           /\ rc_stack' = Append(rc_stack, [emitted |-> Emitted(SceneHit.material),
                                            attenuation |-> res.attenuation])
           /\ rc_ray' = res.scattered
           /\ rc_depth' = rc_depth - 1
           /\ rc_trace' = Append(rc_trace, Call(rc_depth, rc_ray, "scatter",
                                                Emitted(SceneHit.material), res.attenuation))
           /\ UNCHANGED <<rpc, rc_ret>>

\* RayColorCall that intersects the scene before it looks at the depth
RayColorCallHitFirst ==
    /\ rpc = "call"
    /\ rc_hits' = rc_hits + 1
    /\ \/ rc_depth = 0 /\ ReturnBlack
       \/ rc_depth # 0 /\ ~SceneHit.hit /\ ReturnBackground
       \/ rc_depth # 0 /\ SceneHit.hit /\ ScatterOrReturnEmitted
    /\ UNCHANGED <<rc_objs, rc_background, rc_depth0>>
    /\ UNCHANGED <<schedVars, geomVars, pixVars>>

\* main.rs:57-72  ray_color from its entry to its return or to the recursive
\* call of line 71
RayColorCall ==
    /\ rpc = "call"
    /\ \/ rc_depth = 0 /\ rc_hits' = rc_hits /\ ReturnBlack
       \/ rc_depth # 0 /\ rc_hits' = rc_hits + 1 /\ ~SceneHit.hit /\ ReturnBackground
       \/ rc_depth # 0 /\ rc_hits' = rc_hits + 1 /\ SceneHit.hit /\ ScatterOrReturnEmitted
    /\ UNCHANGED <<rc_objs, rc_background, rc_depth0>>
    /\ UNCHANGED <<schedVars, geomVars, pixVars>>

\* RayColorReturn that passes the callee's colour on unattenuated
RayColorReturnNoAttenuation ==
    /\ rpc = "return"
    /\ rc_stack # <<>>
    /\ rc_ret' = CAdd(rc_stack[Len(rc_stack)].emitted, rc_ret)
    /\ rc_stack' = SubSeq(rc_stack, 1, Len(rc_stack) - 1)
    /\ UNCHANGED <<rpc, rc_objs, rc_background, rc_depth0, rc_ray, rc_depth, rc_hits, rc_trace>>
    /\ UNCHANGED <<schedVars, geomVars, pixVars>>

\* main.rs:71  the recursive call has returned:
\* emitted + attenuation * ray_color(scattered, background, objs, depth - 1)
RayColorReturn ==
    /\ rpc = "return"
    /\ rc_stack # <<>>
    /\ LET top == rc_stack[Len(rc_stack)]
       IN  rc_ret' = CAdd(top.emitted, CMul(top.attenuation, rc_ret))
    /\ rc_stack' = SubSeq(rc_stack, 1, Len(rc_stack) - 1)
    /\ UNCHANGED <<rpc, rc_objs, rc_background, rc_depth0, rc_ray, rc_depth, rc_hits, rc_trace>>
    /\ UNCHANGED <<schedVars, geomVars, pixVars>>

\* main.rs:91, 154  the outermost call returns to the renderer
RayColorDone ==
    /\ rpc = "return"
    /\ rc_stack = <<>>
    /\ rpc' = "done"
    /\ UNCHANGED <<rc_objs, rc_background, rc_depth0, rc_ray, rc_depth, rc_stack, rc_ret,
                   rc_hits, rc_trace>>
    /\ UNCHANGED <<schedVars, geomVars, pixVars>>

RayNext ==
    \/ RayColorCall
    \/ RayColorReturn
    \/ RayColorDone

InitRay == SchedInit /\ GeomIdle /\ RayInit /\ PixIdle

SpecRay == InitRay /\ [][RayNext]_vars

\* ================================================================ one pixel

\* The number of samples a pixel is made of (SAMPLES_PER_PIXEL is 1500,
\* main.rs:34).
SamplesPerPixel == 2

\* A u32 as its two 16-bit halves <<high, low>>.
U32(high, low) == <<high, low>>

\* A channel scaled by 256 instead of 255.999: full intensity becomes 256.
ChannelScale256(c, samples_per_pixel) ==
    IF IsNaN(c) \/ c < 0 THEN 0
    ELSE IF c >= samples_per_pixel THEN 256
    ELSE LET n == (65536 * c) \div samples_per_pixel
         IN  CHOOSE u8 \in 0..255 : u8 * u8 <= n /\ (u8 + 1) * (u8 + 1) > n

\* main.rs:46-53  one channel of to_u32: (255.999 * sqrt(scale * c).clamp(0.0,
\* 1.0)) as u8, with scale = 1 / samples_per_pixel. The square root of a
\* negative number is NaN, clamp leaves NaN as it is, and `as u8` takes NaN to
\* 0 and cuts the fraction off; 255.999 * 255.999 is 65535 and a fraction.
Channel(c, samples_per_pixel) ==
    IF IsNaN(c) \/ c < 0 THEN 0
    ELSE IF c >= samples_per_pixel THEN 255
    ELSE LET n == (65535 * c) \div samples_per_pixel
         IN  CHOOSE u8 \in 0..255 : u8 * u8 <= n /\ (u8 + 1) * (u8 + 1) > n

\* main.rs:41-55  to_u32: (0xFF << 24) | (red << 16) | (green << 8) | blue
ToU32(color, samples_per_pixel) ==
    LET red == Channel(color[1], samples_per_pixel)
        green == Channel(color[2], samples_per_pixel)
        blue == Channel(color[3], samples_per_pixel)
    IN  U32(255 * 256 + red, green * 256 + blue)

\* main.rs:57-74  ray_color as a function: the colours the random draws of
\* the materials allow.
RECURSIVE RayColors(_, _, _, _)
RayColors(r, background, scene, depth) ==
    IF depth = 0 THEN { Black }
    ELSE LET h == ListHit(scene, r, T_MIN, INFINITY)
         IN  IF ~h.hit THEN { background }
             ELSE UNION { IF ~res.some THEN { Emitted(h.material) }
                          ELSE { CAdd(Emitted(h.material), CMul(res.attenuation, c)) :
                                   c \in RayColors(res.scattered, background, scene,
                                                   depth - 1) } :
                          res \in Scatter(h.material, h) }

\* main.rs:154  the background render_mt passes: Color::new(1.0, 1.0, 1.0, 1.0)
White == <<1, 1, 1, 1>>

\* The scenes a pixel is rendered in: the empty list, lights alone (one of
\* them with an emission outside the range of a colour), and a lit sphere.
PixelScenePool ==
    { <<>>,
      <<ObjectPool[3]>>,
      <<Sphere(<<0, 0, 100>>, 10, DiffuseLight(8, <<-1, INFINITY, NaN, 1>>))>>,
      <<Sphere(<<0, 0, 100>>, 10, DiffuseLight(9, <<-3, 8, 0, 1>>))>>,
      <<ObjectPool[1], Sphere(<<-80, 0, 0>>, 10, DiffuseLight(6, <<1, 0, 2, 1>>))>> }

\* main.rs:143  a worker's loop reaches idx, an index of its chunk
PixelInit ==
    /\ xpc = "start"
    /\ px_objs \in PixelScenePool
    /\ px_idx \in Pixels
    /\ px_x = 0
    /\ px_y = 0
    /\ px_color = <<0, 0, 0>>
    /\ px_n = 0
    /\ px_buffer = [i \in Pixels |-> <<0, 0>>]

\* main.rs:144-147  x, y and the zero colour
PixelStart ==
    /\ xpc = "start"
    /\ px_x' = px_idx % WIDTH
    /\ px_y' = px_idx \div WIDTH
    /\ px_color' = <<0, 0, 0>>
    /\ xpc' = "sample"
    /\ UNCHANGED <<px_objs, px_idx, px_n, px_buffer>>
    /\ UNCHANGED <<schedVars, geomVars, rayVars>>

\* main.rs:148-156  one sample: a ray of the camera, its colour, and
\* color += vec3(c.x, c.y, c.z) * c.w
PixelSample ==
    /\ xpc = "sample"
    /\ px_n < SamplesPerPixel
    /\ \E r \in RayPool :
         \E c \in RayColors(r, White, px_objs, MaxDepth) :
            px_color' = [i \in 1..3 |-> FAdd(px_color[i], FMul(c[i], c[4]))]
    /\ px_n' = px_n + 1
    /\ UNCHANGED <<xpc, px_objs, px_idx, px_x, px_y, px_buffer>>
    /\ UNCHANGED <<schedVars, geomVars, rayVars>>

\* main.rs:157-160  res = to_u32(color, SAMPLES_PER_PIXEL); ptr.0.add(idx).write(res)
PixelWrite ==
    /\ xpc = "sample"
    /\ px_n = SamplesPerPixel
    /\ px_buffer' = [px_buffer EXCEPT ![px_idx] = ToU32(px_color, SamplesPerPixel)]
    /\ xpc' = "done"
    /\ UNCHANGED <<px_objs, px_idx, px_x, px_y, px_color, px_n>>
    /\ UNCHANGED <<schedVars, geomVars, rayVars>>

PixelNext ==
    \/ PixelStart
    \/ PixelSample
    \/ PixelWrite

InitPixel == SchedInit /\ GeomIdle /\ RayIdle /\ PixelInit

SpecPixel == InitPixel /\ [][PixelNext]_vars

\* ---------------------------------------------------- the scheduler's claims

Running(w) == wpc[w] \in {"claim", "render"}
NoWorkerRuns == \A w \in Workers : ~Running(w)
\* Every pixel of buf was written by a worker of frame k.
CompleteFrame(buf, k) == \A i \in Pixels : buf[i] = <<k, i % WIDTH, i \div WIDTH>>
LatestPublished == IF published = <<>> THEN 0 ELSE published[Len(published)]

\* C1: in every frame each pixel index below WIDTH*HEIGHT is claimed at most
\* once and written at most once, a written index was claimed, two workers that
\* render at the same time hold disjoint chunks, no index >= WIDTH*HEIGHT is
\* written, and when the workers are joined every index has been claimed and
\* written exactly once.
C1_EachPixelOnce ==
    /\ oob = {}
    /\ \A i \in Pixels : claims[i] <= 1 /\ writes[i] <= claims[i]
    /\ \A v, w \in Workers :
         (v # w /\ wpc[v] = "render" /\ wpc[w] = "render") =>
            /\ idx[v] # idx[w]
            /\ \/ start_idx[v] + pixels_per_iter <= start_idx[w]
               \/ start_idx[w] + pixels_per_iter <= start_idx[v]
    /\ \A w \in Workers : wpc[w] = "render" => idx[w] < WIDTH * HEIGHT
    /\ ppc \in {"lock", "set"} =>
         \A i \in Pixels : claims[i] = 1 /\ writes[i] = 1

\* Both workers are in the middle of their chunks, one of them the partial
\* last chunk.
C1_Witness ==
    /\ wpc[1] = "render" /\ wpc[2] = "render"
    /\ idx[1] > start_idx[1] /\ idx[2] > start_idx[2]
    /\ \E w \in Workers : start_idx[w] + pixels_per_iter > WIDTH * HEIGHT

\* C2: while the producer swaps (takes the lock and sets the slot) no worker is
\* running and every pixel of its buffer has been written in this frame; the
\* slot never holds a partly written frame; and no worker is running when the
\* producer is about to create the next frame's pixel counter.
C2_SwapAfterJoin ==
    /\ ppc \in {"lock", "set"} => NoWorkerRuns /\ CompleteFrame(buffer, frame)
    /\ swap_chain = ZeroBuffer \/ CompleteFrame(swap_chain, FrameOf(swap_chain))
    /\ ppc \in {"loop", "frame"} => NoWorkerRuns

\* The producer holds the lock and is about to set the slot to the second frame.
C2_Witness == ppc = "set" /\ frame = 2 /\ FrameOf(swap_chain) = 1

\* C3: the producer holds the mutex exactly while it replaces the slot's buffer,
\* and then no worker is running; the display holds it exactly while it copies
\* the slot's buffer, and does not hold it while presenting.
C3_MutexOnlyForHandOff ==
    /\ mutex = "producer" <=> ppc = "set"
    /\ mutex = "producer" => NoWorkerRuns
    /\ mutex = "display" <=> dpc = "copy"
    /\ dpc = "present" => mutex # "display"

\* The display presents its copy while the producer holds the mutex.
C3_Witness == dpc = "present" /\ mutex = "producer"

\* C4: the slot always holds exactly the most recently published frame (the
\* zero buffer before the first); every copy the display takes is that frame;
\* a publish replaces the slot whatever the display has read; and the producer,
\* once it has the mutex, can always set the slot, and can always take the
\* mutex when it is free, whether or not the display has read the last frame.
C4_LatestFrameOnly ==
    /\ [](/\ FrameOf(swap_chain) = LatestPublished
          /\ (published = <<>> => swap_chain = ZeroBuffer)
          /\ (ppc = "set" => ENABLED ProducerSet)
          /\ (ppc = "lock" /\ mutex = "free" => ENABLED ProducerLock))
    /\ [][/\ (dpc = "copy" /\ dpc' = "present" => FrameOf(shown') = LatestPublished)
          /\ (ppc = "set" /\ ppc' = "loop" =>
                /\ FrameOf(swap_chain') = frame
                /\ published' = Append(published, frame))]_vars

\* Two frames have been published and the display's last copy is older than
\* both: frame 1 was replaced unread, and the poll in progress yields frame 2.
C4_Witness ==
    /\ Len(published) = 2
    /\ FrameOf(shown) = 0
    /\ dpc = "copy"
    /\ FrameOf(swap_chain) = 2

\* C5 as claimed: once the flag is set no worker claims a further chunk, the
\* producer passes its loop test no more, and a claimed chunk is rendered to
\* its end.
C5_Original ==
    [][/\ stop => \A w \in Workers : ~(wpc[w] = "claim" /\ wpc'[w] = "render")
       /\ stop => ~(ppc = "loop" /\ ppc' = "frame")
       /\ \A w \in Workers :
            (wpc[w] = "render" /\ wpc'[w] # "render") =>
               idx'[w] = Min(start_idx[w] + pixels_per_iter, WIDTH * HEIGHT)]_vars

\* C5 amended: the flag is tested only at the producer's loop test. Once it is
\* set the producer passes its loop test no more; a worker never looks at it:
\* a worker stops claiming only when the pixel counter has reached
\* WIDTH*HEIGHT, flag or no flag, and a claimed chunk is rendered to its end.
C5_StopOnlyBetweenFrames ==
    [][/\ stop => ~(ppc = "loop" /\ ppc' = "frame")
       /\ \A w \in Workers :
            /\ (wpc[w] = "claim" /\ wpc'[w] = "finished") => pixel_index >= WIDTH * HEIGHT
            /\ (wpc[w] = "claim" /\ wpc'[w] = "render") => pixel_index < WIDTH * HEIGHT
            /\ (wpc[w] = "render" /\ wpc'[w] # "render") =>
                  idx'[w] = Min(start_idx[w] + pixels_per_iter, WIDTH * HEIGHT)
            /\ (wpc[w] = "render" /\ wpc'[w] = "render") =>
                  idx'[w] \in {idx[w], idx[w] + 1}]_vars

\* A worker renders a chunk that it claimed after the flag was set.
C5_Witness == stop /\ lateClaim /\ \E w \in Workers : wpc[w] = "render"

\* C6: the flag changes only in the display loop's store after its loop, to
\* TRUE; the producer leaves its loop test to "exit" when the flag is set and
\* stays there; between the loop test and the end of the swap its steps do not
\* wait for the flag; and once the flag is set the producer eventually exits.
C6_StopEndsProducer ==
    /\ [][/\ stop' # stop => (dpc = "store" /\ dpc' = "returned" /\ stop')
          /\ (ppc = "loop" /\ ppc' # "loop") => (ppc' = (IF stop THEN "exit" ELSE "frame"))
          /\ ppc = "exit" => ppc' = "exit"
          /\ (ppc # "loop" /\ ppc' = "exit") => ppc = "exit"]_vars
    /\ [](/\ ppc = "frame" => ENABLED ProducerNewFrame
          /\ ppc = "spawn" => ENABLED ProducerSpawn
          /\ ppc = "set" => ENABLED ProducerSet)
    /\ (stop ~> ppc = "exit")

\* The producer has exited after the flag was set in the middle of a frame.
C6_Witness == ppc = "exit" /\ stop /\ frame >= 1 /\ Len(published) = frame

\* ----------------------------------------------- the intersection queries' claims

SameHit(a, b) ==
    \/ ~a.hit /\ ~b.hit
    \/ a.hit /\ b.hit /\ a.t = b.t /\ a.material = b.material

\* C7: for every non-empty set of objects, every order of it, every choice of
\* split axes, every ray and every interval, BvhNode::hit on the tree built
\* returns what HittableList::hit returns over the same objects: both miss, or
\* both hit with the same t and the same material, ties included.
C7_BvhEqualsList == gpc = "done" => SameHit(g_bvh, g_list)

\* C8: every hit returned by a Hittable's hit(ray, t_min, t_max) has its t
\* strictly inside the interval: t_min < t < t_max.
C8_HitStrictlyInside ==
    gpc = "done" =>
        \A res \in { g_each[i] : i \in DOMAIN g_each } \cup { g_bvh } :
            res.hit => Lt(g_tmin, res.t) /\ Lt(res.t, g_tmax)

\* ------------------------------------------------------------ ray_color's claims

\* The last call of the trace.
LastCall == rc_trace[Len(rc_trace)]

\* C9: a call of ray_color with depth 0 returns pure black, whatever the ray,
\* the background and the scene, and does not intersect the scene.
C9_DepthZeroIsBlack ==
    [][(rpc = "call" /\ rc_depth = 0) =>
          /\ rpc' = "return"
          /\ rc_ret' = <<0, 0, 0, 0>>
          /\ rc_hits' = rc_hits
          /\ rc_stack' = rc_stack]_vars

\* A call with depth 0 has returned, for a ray that hits the scene and under a
\* background that is not black.
C9_Witness ==
    /\ rpc = "return"
    /\ rc_trace # <<>>
    /\ Len(rc_stack) = Len(rc_trace) - 1
    /\ LastCall.depth = 0
    /\ rc_ret = Black
    /\ rc_background # Black
    /\ ListHit(rc_objs, LastCall.ray, T_MIN, INFINITY).hit

\* The colour the claimed recurrence gives call i of a trace: black at depth 0,
\* the background on a miss, the emitted term on absorption, and
\* emitted + attenuation * (the colour of call i + 1) on a scatter.
RECURSIVE Claimed(_, _)
Claimed(trace, i) ==
    LET c == trace[i]
    IN  CASE c.kind = "black" -> Black
          [] c.kind = "miss" -> rc_background
          [] c.kind = "absorb" -> c.emitted
          [] c.kind = "scatter" ->
               [k \in 1..4 |-> c.emitted[k] + c.attenuation[k] * Claimed(trace, i + 1)[k]]

\* What is left of an evaluation: it is 0 only when the outermost call has
\* returned, and at most 2 * rc_depth0 + 3.
Variant ==
    CASE rpc = "call" -> 2 * rc_depth + Len(rc_stack) + 3
      [] rpc = "return" -> Len(rc_stack) + 1
      [] OTHER -> 0

\* C10: for depth d >= 1 ray_color returns the background on a miss, the emitted
\* term when the material absorbs, and emitted + attenuation * ray_color(scattered,
\* d - 1) when it scatters; the depth decreases by exactly one per bounce and an
\* evaluation intersects the scene at most d times and returns: a call that has
\* not returned can take a step, and every step brings the return nearer.
C10_RayColorRecurrence ==
    /\ [](/\ rc_hits <= rc_depth0
          /\ Len(rc_stack) <= rc_depth0
          /\ \A i \in DOMAIN rc_trace : rc_trace[i].depth = rc_depth0 - (i - 1)
          /\ rpc = "call" =>
               rc_depth = rc_depth0 - Len(rc_trace) /\ Len(rc_stack) = Len(rc_trace)
          /\ rpc \in {"return", "done"} =>
               /\ rc_ret = Claimed(rc_trace, Len(rc_stack) + 1)
               /\ \A i \in DOMAIN rc_trace :
                    LET c == rc_trace[i]
                        hr == ListHit(rc_objs, c.ray, T_MIN, INFINITY)
                    IN  /\ c.kind = "black" <=> c.depth = 0
                        /\ c.depth >= 1 =>
                             /\ c.kind = "miss" <=> ~hr.hit
                             /\ c.kind \in {"absorb", "scatter"} =>
                                  c.emitted = Emitted(hr.material)
                             /\ c.kind = "absorb" => Absorbed \in Scatter(hr.material, hr)
                             /\ c.kind = "scatter" =>
                                  /\ i < Len(rc_trace)
                                  /\ Scattered(c.attenuation, rc_trace[i + 1].ray)
                                       \in Scatter(hr.material, hr)
                        /\ c.kind # "scatter" => i = Len(rc_trace))
    /\ [](rpc = "call" =>
             rc_depth = 0 \/ ~SceneHit.hit \/ Scatter(SceneHit.material, SceneHit) # {})
    /\ [][Variant' < Variant]_vars

\* An evaluation of three calls or more has returned: the outermost call
\* scattered with an attenuation that is not 1, and the colour returned is
\* neither black nor the background.
C10_Witness ==
    /\ rpc = "done"
    /\ Len(rc_trace) >= 3
    /\ rc_trace[1].kind = "scatter"
    /\ rc_trace[1].attenuation # <<1, 1, 1, 1>>
    /\ rc_ret # Black
    /\ rc_ret # rc_background

\* ------------------------------------------------------- the pixel's claims

\* The bytes of a u32 kept as <<high, low>>.
AlphaOf(u) == u[1] \div 256
RedOf(u) == u[1] % 256
GreenOf(u) == u[2] \div 256
BlueOf(u) == u[2] % 256
IsU32(u) == u[1] \in 0..65535 /\ u[2] \in 0..65535

\* C11: rendering a scene whose top-level list is empty yields a black
\* image: the pixel written has red, green and blue equal to 0.
C11_EmptySceneIsBlack ==
    (xpc = "done" /\ px_objs = <<>>) =>
        /\ RedOf(px_buffer[px_idx]) = 0
        /\ GreenOf(px_buffer[px_idx]) = 0
        /\ BlueOf(px_buffer[px_idx]) = 0

\* C12: the pixel written is a 32-bit value whose top byte is 0xFF and whose
\* other three bytes are the channels, each in 0..255, an accumulated colour
\* outside the range being clamped to 0 or 255; the buffer has WIDTH * HEIGHT
\* entries and the pixel of column x and row y is the entry y * WIDTH + x,
\* with 0 <= x < WIDTH and 0 <= y < HEIGHT; no other entry is written.
C12_PackedPixel ==
    /\ DOMAIN px_buffer = 0..(WIDTH * HEIGHT - 1)
    /\ xpc = "done" =>
        /\ IsU32(px_buffer[px_idx])
        /\ AlphaOf(px_buffer[px_idx]) = 255
        /\ \A i \in 1..3 :
             LET channel == << RedOf(px_buffer[px_idx]), GreenOf(px_buffer[px_idx]),
                               BlueOf(px_buffer[px_idx]) >>[i]
             IN  /\ channel \in 0..255
                 /\ (~IsNaN(px_color[i]) /\ px_color[i] >= SamplesPerPixel) => channel = 255
                 /\ (~IsNaN(px_color[i]) /\ px_color[i] <= 0) => channel = 0
        /\ px_x \in 0..(WIDTH - 1)
        /\ px_y \in 0..(HEIGHT - 1)
        /\ px_idx = px_y * WIDTH + px_x
        /\ \A i \in Pixels \ {px_idx} : px_buffer[i] = <<0, 0>>

\* A pixel off the first row and column is written with one channel clamped
\* from above, one from below and one in between.
C12_Witness ==
    /\ xpc = "done"
    /\ px_x > 0
    /\ px_y > 0
    /\ \E i, j, k \in 1..3 :
         /\ ~IsNaN(px_color[i]) /\ px_color[i] > SamplesPerPixel
         /\ ~IsNaN(px_color[j]) /\ px_color[j] < 0
         /\ ~IsNaN(px_color[k]) /\ px_color[k] > 0 /\ px_color[k] < SamplesPerPixel
    /\ \E u8 \in 1..254 :
         u8 \in { RedOf(px_buffer[px_idx]), GreenOf(px_buffer[px_idx]),
                  BlueOf(px_buffer[px_idx]) }

\* --------------------------------------------------- lights and ray_color

\* Every member of the list is a primitive whose material is a DiffuseLight.
LightOnly(objs) ==
    /\ objs # <<>>
    /\ \A i \in DOMAIN objs :
         "material" \in DOMAIN objs[i] /\ objs[i].material.kind = "diffuse_light"

\* C13: in a scene of lights alone, ray_color with depth >= 1 returns the
\* colour of the light the ray hits, after one intersection and no bounce, and
\* the background for a ray that hits none.
C13_LightOnlyScene ==
    (rpc = "done" /\ LightOnly(rc_objs) /\ rc_depth0 >= 1) =>
        /\ Len(rc_trace) = 1
        /\ rc_hits = 1
        /\ LET h == ListHit(rc_objs, rc_trace[1].ray, T_MIN, INFINITY)
           IN  IF h.hit THEN rc_ret = h.material.color
                        ELSE rc_ret = rc_background

\* A ray has hit the second light of a scene of two, with bounces to spare.
C13_Witness ==
    /\ rpc = "done"
    /\ LightOnly(rc_objs)
    /\ Len(rc_objs) = 2
    /\ rc_depth0 >= 2
    /\ rc_ret = rc_objs[2].material.color
    /\ rc_ret # rc_background

\* --------------------------------------------------------- the BVH's claims

\* C14: BvhNode::hit lets the right subtree's hit replace the left subtree's
\* only when it is strictly closer; when the left subtree misses, the answer is
\* the right subtree's over the original interval; when the ray misses the
\* node's box the answer is no hit.
C14_RightOnlyIfStrictlyCloser ==
    gpc = "done" =>
        LET in_box == AABBHit(g_tree.bbox, g_ray, g_tmin, g_tmax)
            left == Hit(g_tree.left, g_ray, g_tmin, g_tmax)
        IN  /\ ~in_box => ~g_bvh.hit
            /\ (in_box /\ left.hit) =>
                  /\ g_bvh.hit
                  /\ g_bvh = left \/ Lt(g_bvh.t, left.t)
            /\ (in_box /\ ~left.hit) => g_bvh = Hit(g_tree.right, g_ray, g_tmin, g_tmax)

\* The objects at the leaves of a tree.
RECURSIVE Leaves(_)
Leaves(node) ==
    IF node.kind = "bvh" THEN Leaves(node.left) \cup Leaves(node.right) ELSE { node }

\* The position of an object in the slice BvhNode::new was given.
IndexOf(obj) == CHOOSE i \in DOMAIN g_objects : g_objects[i] = obj

\* The minimum of an object's box on the axis the root drew.
RootKey(obj) == BoundingBox(obj).min[g_axes[1] + 1]

\* C15: when BvhNode::new has returned: on n >= 3 objects it has put the first n / 2 objects of the
\* stable sort by the axis's minimum in the left subtree and the remaining
\* n - n / 2 in the right one: both are non-empty and smaller than n, no object
\* is dropped or put in both, every left minimum is <= every right minimum,
\* and objects of equal minimum keep their order; on 1 object both children
\* are that object; the leaves of the tree are exactly the objects given.
C15_SortedMidpointSplit ==
    gpc = "bvh_hit" =>
        LET n == Len(g_objects)
            left == Leaves(g_tree.left)
            right == Leaves(g_tree.right)
        IN  /\ Leaves(g_tree) = { g_objects[i] : i \in DOMAIN g_objects }
            /\ n = 1 => g_tree.left = g_objects[1] /\ g_tree.right = g_objects[1]
            /\ n >= 3 =>
                  /\ Cardinality(left) = n \div 2
                  /\ Cardinality(right) = n - n \div 2
                  /\ Cardinality(left) \in 1..(n - 1)
                  /\ Cardinality(right) \in 1..(n - 1)
                  /\ left \cap right = {}
                  /\ \A a \in left, b \in right :
                       /\ RootKey(a) <= RootKey(b)
                       /\ RootKey(a) = RootKey(b) => IndexOf(a) < IndexOf(b)

\* Three objects were given out of order, and an object of the left subtree
\* has the same minimum as one of the right subtree.
C15_Witness ==
    /\ gpc = "bvh_hit"
    /\ Len(g_objects) = 3
    /\ \E i, j \in DOMAIN g_objects : i < j /\ RootKey(g_objects[i]) > RootKey(g_objects[j])
    /\ \E a \in Leaves(g_tree.left), b \in Leaves(g_tree.right) : RootKey(a) = RootKey(b)

\* The BvhNodes of a tree.
RECURSIVE Nodes(_)
Nodes(node) ==
    IF node.kind = "bvh" THEN { node } \cup Nodes(node.left) \cup Nodes(node.right) ELSE {}

\* Box a contains box b.
Contains(a, b) ==
    \A i \in 1..3 : Le(a.min[i], b.min[i]) /\ Le(b.max[i], a.max[i])

\* The componentwise union of two boxes, the smaller minimum and the greater
\* maximum on every axis.
UnionOf(a, b) ==
    [min |-> [i \in 1..3 |-> IF a.min[i] < b.min[i] THEN a.min[i] ELSE b.min[i]],
     max |-> [i \in 1..3 |-> IF a.max[i] > b.max[i] THEN a.max[i] ELSE b.max[i]]]

\* C16: when BvhNode::new has returned, the box of every node it built is the componentwise union
\* of its two children's boxes and contains the box of every leaf below it;
\* surrounding_box(a, b) contains a and b.
C16_NodeBoxIsUnion ==
    gpc = "bvh_hit" =>
        /\ \A node \in Nodes(g_tree) :
             /\ node.bbox = UnionOf(BoundingBox(node.left), BoundingBox(node.right))
             /\ \A leaf \in Leaves(node) : Contains(node.bbox, BoundingBox(leaf))
        /\ LET boxes == { BoundingBox(obj) : obj \in Nodes(g_tree) \cup Leaves(g_tree) }
           IN  \A a, b \in boxes :
                 Contains(SurroundingBox(a, b), a) /\ Contains(SurroundingBox(a, b), b)

\* A tree of three nodes whose root box is the box of neither child.
C16_Witness ==
    /\ gpc = "bvh_hit"
    /\ Cardinality(Nodes(g_tree)) = 3
    /\ Cardinality(Leaves(g_tree)) = 3
    /\ g_tree.bbox # BoundingBox(g_tree.left)
    /\ g_tree.bbox # BoundingBox(g_tree.right)

\* ------------------------------------------------- the list's claim

\* The members of the list that hit the ray within the interval on their own.
MembersHit == { i \in DOMAIN g_each : g_each[i].hit }

Roots(s, ray) ==
    LET oc == VSub(ray.origin, s.center)
        a == Dot(ray.direction, ray.direction)
        half_b == Dot(oc, ray.direction)
        discriminant == half_b * half_b - a * (Dot(oc, oc) - s.radius * s.radius)
    IN  IF discriminant < 0 THEN <<>>
        ELSE << FDiv(-half_b - Sqrt(discriminant), a), FDiv(-half_b + Sqrt(discriminant), a) >>

\* t is within the interval of the query, its ends included.
InRange(t) == Le(g_tmin, t) /\ Le(t, g_tmax)

\* The root Sphere::hit is claimed to select: <<t>>, or <<>> for none.
Selected(s, ray) ==
    LET roots == Roots(s, ray)
    IN  IF roots = <<>> THEN <<>>
        ELSE IF InRange(roots[1]) THEN <<roots[1]>>
        ELSE IF InRange(roots[2]) THEN <<roots[2]>>
        ELSE <<>>

\* The spheres among the members of the query.
Spheres == { i \in DOMAIN g_objects : g_objects[i].kind = "sphere" }

\* C18: Sphere::hit selects the smaller root when it is within [t_min, t_max],
\* otherwise the larger root when that one is, otherwise there is no hit; when
\* the material's transparency predicate rejects the point of the selected
\* root there is no hit, whether or not the other root is within range.
C18_SmallerRootFirst ==
    gpc = "done" =>
        \A i \in Spheres :
            LET sel == Selected(g_objects[i], g_ray)
            IN  IF sel = <<>> THEN ~g_each[i].hit
                ELSE IF At(g_ray, sel[1]) \in g_objects[i].material.holes
                  THEN ~g_each[i].hit
                  ELSE g_each[i].hit /\ g_each[i].t = sel[1]

\* The smaller root of a sphere was rejected by the predicate while the larger
\* root was within range and on a solid point, and the sphere reported no hit.
C18_Witness ==
    /\ gpc = "done"
    /\ \E i \in Spheres :
         LET roots == Roots(g_objects[i], g_ray)
         IN  /\ roots # <<>>
             /\ InRange(roots[1]) /\ InRange(roots[2])
             /\ roots[1] < roots[2]
             /\ At(g_ray, roots[1]) \in g_objects[i].material.holes
             /\ At(g_ray, roots[2]) \notin g_objects[i].material.holes
             /\ ~g_each[i].hit

\* ---------------------------------------------- the translation's claim

\* The translated objects among the members of the query.
Translates == { i \in DOMAIN g_objects : g_objects[i].kind = "translate" }

\* What the child of a Translate answers for the ray shifted by -offset.
ChildHit(tr) ==
    Hit(tr.obj, Ray(VSub(g_ray.origin, tr.translation), g_ray.direction), g_tmin, g_tmax)

\* C19: Translate::hit returns a hit exactly when its child hits the ray whose
\* origin is shifted by -offset over the same interval, and the hit returned is
\* the child's with the position shifted by +offset: t, material, normal and
\* front_face are the child's, for front-face and back-face hits alike. (u and
\* v, which Translate::hit does not touch, are not part of the model's
\* HitResult.)
C19_TranslateShiftsPositionOnly ==
    gpc = "done" =>
        \A i \in Translates :
            LET child == ChildHit(g_objects[i])
                res == g_each[i]
            IN  /\ res.hit <=> child.hit
                /\ res.hit =>
                      /\ res.position = VAdd(child.position, g_objects[i].translation)
                      /\ res.t = child.t
                      /\ res.material = child.material
                      /\ res.normal = child.normal
                      /\ res.front_face = child.front_face

\* ------------------------------------------------- the display's claim

\* The frames published so far.
Published == { published[i] : i \in DOMAIN published }

\* C20: every buffer the display copies out of the slot is the initial zero
\* buffer, and then no frame has been published yet, or a frame the producer
\* has completed and published, never the frame the workers are still writing;
\* and the frame numbers the display observes never decrease.
C20_DisplaySeesCompleteFrames ==
    /\ [](/\ shown = ZeroBuffer \/ CompleteFrame(shown, FrameOf(shown))
          /\ (ppc \in {"spawn", "join", "lock", "set"} => frame \notin Published))
    /\ [][/\ (dpc = "copy" /\ dpc' = "present") =>
                /\ shown' = ZeroBuffer => published = <<>>
                /\ shown' # ZeroBuffer =>
                      /\ FrameOf(shown') \in Published
                      /\ CompleteFrame(shown', FrameOf(shown'))
                /\ (\E w \in Workers : Running(w)) => FrameOf(shown') < frame
          /\ FrameOf(shown') >= FrameOf(shown)]_vars

\* The display presents the first frame while the workers are writing the
\* second, part of it written.
C20_Witness ==
    /\ dpc = "present"
    /\ FrameOf(shown) = 1
    /\ frame = 2
    /\ \E w \in Workers : Running(w)
    /\ \E i \in Pixels : writes[i] = 1
    /\ \E i \in Pixels : writes[i] = 0

\* ------------------------------------------------ the frame in flight

\* A frame was in flight when the flag was set: the producer had passed its
\* loop test and not yet finished the swap.
InFlightAtStop == atStop.ppc \in {"frame", "spawn", "join", "lock", "set"}

\* The number of the frame in flight when the flag was set.
FrameAtStop == IF atStop.ppc = "frame" THEN atStop.frame + 1 ELSE atStop.frame

\* C21: after the display loop has set the flag the producer publishes at most
\* one more frame, the frame in flight when the flag was set, and creates no
\* pixel counter for a later frame.
C21_OneFrameAfterStop ==
    stop =>
        /\ Len(published) <= atStop.published + 1
        /\ Len(published) > atStop.published =>
              InFlightAtStop /\ published[Len(published)] = FrameAtStop
        /\ frame <= FrameAtStop
        /\ ~InFlightAtStop => frame = atStop.frame /\ Len(published) = atStop.published

\* The flag was set when the producer had passed its loop test and not yet
\* created the frame's pixel counter; the producer has rendered and published
\* that frame and has exited.
C21_Witness ==
    /\ stop
    /\ atStop.ppc = "frame"
    /\ Len(published) = atStop.published + 1
    /\ frame = atStop.frame + 1
    /\ ppc = "exit"

\* --------------------------------------------------- the frame's dispatch

\* ceil(WIDTH * HEIGHT / 64): the chunks of a frame.
Chunks == (WIDTH * HEIGHT + pixels_per_iter - 1) \div pixels_per_iter

\* C22: a frame's dispatch terminates under fair scheduling of the workers:
\* the frame's pixel counter only increases; a worker exits on its first claim
\* whose start index is >= WIDTH * HEIGHT and on no other, and claims nothing
\* after it; when the workers are joined the counter is 64 * (the chunks of
\* the frame + the number of workers); and a frame whose workers are being
\* spawned reaches the swap.
C22_DispatchTerminates ==
    /\ [][/\ ppc # "frame" => pixel_index' >= pixel_index
          /\ \A w \in Workers :
               /\ (wpc[w] = "claim" /\ wpc'[w] = "finished") =>
                     start_idx'[w] >= WIDTH * HEIGHT
               /\ (wpc[w] = "claim" /\ wpc'[w] = "render") =>
                     start_idx'[w] < WIDTH * HEIGHT
               /\ wpc[w] = "finished" =>
                     /\ wpc'[w] \in {"finished", "none"}
                     /\ wpc'[w] = "finished" => start_idx'[w] = start_idx[w]]_vars
    /\ [](ppc \in {"lock", "set"} => pixel_index = pixels_per_iter * (Chunks + par))
    /\ (ppc = "spawn" ~> ppc = "lock")

\* Every worker of the second frame has made its unsuccessful claim, each at
\* its own start index, and the producer is about to leave the scope.
C22_Witness ==
    /\ ppc = "join"
    /\ frame = 2
    /\ \A w \in Workers : wpc[w] = "finished" /\ start_idx[w] >= WIDTH * HEIGHT
    /\ \A v, w \in Workers : v # w => start_idx[v] # start_idx[w]
    /\ pixel_index = pixels_per_iter * (Chunks + par)

\* ------------------------------------------------ the empty slice

\* C23: BvhNode::new on an empty slice returns no node: it panics, and no
\* child and no box has been computed; on a non-empty slice it returns a node
\* and does not panic: no recursive call is given an empty slice.
C23_EmptySlicePanics ==
    gpc \in {"bvh_hit", "panicked"} =>
        /\ g_objects = <<>> => gpc = "panicked"
        /\ gpc = "panicked" => g_tree = None
        /\ g_objects # <<>> =>
              /\ gpc = "bvh_hit"
              /\ g_tree.kind = "bvh"
              /\ \A node \in Nodes(g_tree) :
                   Leaves(node.left) # {} /\ Leaves(node.right) # {}

\* BvhNode::new was given the empty slice and has panicked.
C23_Witness == gpc = "panicked" /\ g_objects = <<>> /\ g_tree = None /\ g_axes # <<>>

\* ------------------------------------------------------ the mutex

\* C24: the producer and the display never deadlock on the slot's mutex: a
\* thread that asks for it does not hold it, the thread that holds it can take
\* its releasing step whatever the other thread and the workers do, and under
\* a fair lock every request of either thread is granted.
C24_NoMutexDeadlock ==
    /\ [](/\ ppc = "lock" => mutex # "producer"
          /\ dpc = "lock" => mutex # "display"
          /\ mutex = "producer" => ppc = "set" /\ ENABLED ProducerSet
          /\ mutex = "display" => dpc = "copy" /\ ENABLED DisplayCopy)
    /\ (ppc = "lock" ~> ppc = "set")
    /\ (dpc = "lock" ~> dpc = "copy")

\* The producer asks for the mutex while the display holds it.
C24_Witness == ppc = "lock" /\ dpc = "copy" /\ mutex = "display" /\ frame = 2

====
